---- MODULE Spec2Model ----
(***************************************************************************)
(* Model of app.py: the three request handlers merge_files (POST /merge),  *)
(* generate_hm (POST /generate-hm) and transform_file (POST /transform).   *)
(*                                                                         *)
(* Text is a sequence of one-character strings, so that str.strip,         *)
(* str.lower, str.startswith and str.endswith are computed, not assumed.   *)
(* A cell of a DataFrame is either NaN (pandas' null marker) or a text.    *)
(* An uploaded file is a sheet of texts (or an unparseable byte-stream);   *)
(* pandas turns an empty cell of a sheet into NaN when it reads it.        *)
(***************************************************************************)
EXTENDS Integers, Sequences, FiniteSets, TLC

VARIABLES
    endpoint,         \* the route the request was sent to
    files,            \* request.files.getlist("files")            (/merge)
    input_file,       \* request.files.get("input_file")
    base_file,        \* request.files.get("base_file")
    hm_file,          \* request.files.get("hm_file")
    pc,               \* position of the handler: "start", "loop", "done"
    i,                \* loop index: file of /merge, hm row of /transform (1-based)
    dfs,              \* merge_files: the ingested DataFrames
    seen_extra_cols,  \* merge_files: extras in first-seen order
    base_order,       \* merge_files: headers of the first file (<<>> while None)
    input_df,         \* transform_file
    base_headers,     \* transform_file
    hm_df,            \* transform_file
    transformed_df,   \* transform_file: the table under construction
    response          \* what the client receives

vars == <<endpoint, files, input_file, base_file, hm_file, pc, i, dfs,
          seen_extra_cols, base_order, input_df, base_headers, hm_df,
          transformed_df, response>>

-----------------------------------------------------------------------------
(* Bounds *)

MaxFiles == 2
MaxRows == 2
MaxHeaders == 4
MaxHmRows == 2

-----------------------------------------------------------------------------
(* Sequences and text *)

Range(s) == {s[n] : n \in 1..Len(s)}

Contains(s, x) == \E n \in 1..Len(s) : s[n] = x

IndexOf(s, x) == CHOOSE n \in 1..Len(s) : s[n] = x

SeqsUpTo(S, n) == UNION {[1..m -> S] : m \in 0..n}

UniqueSeqsUpTo(S, n) ==
    {s \in SeqsUpTo(S, n) : \A a, b \in 1..Len(s) : a # b => s[a] # s[b]}

RECURSIVE SumLen(_)
SumLen(ss) == IF ss = <<>> THEN 0 ELSE Len(Head(ss)) + SumLen(Tail(ss))

T(c) == <<c>>

Whitespace == {" ", "\t", "\n"}

Quote == "\""

RECURSIVE LStripChars(_, _)
LStripChars(s, cs) ==
    IF s # <<>> /\ Head(s) \in cs THEN LStripChars(Tail(s), cs) ELSE s

RECURSIVE RStripChars(_, _)
RStripChars(s, cs) ==
    IF s # <<>> /\ s[Len(s)] \in cs
    THEN RStripChars(SubSeq(s, 1, Len(s) - 1), cs)
    ELSE s

\* str.strip(chars): every leading and trailing character of cs is removed
StripChars(s, cs) == RStripChars(LStripChars(s, cs), cs)

\* str.strip()
Strip(s) == StripChars(s, Whitespace)

LowerChar(c) ==
    CASE c = "A" -> "a" [] c = "B" -> "b" [] c = "C" -> "c" [] c = "D" -> "d"
      [] c = "N" -> "n" [] c = "V" -> "v" [] c = "W" -> "w" [] c = "X" -> "x" [] c = "Y" -> "y" [] c = "Z" -> "z"
      [] OTHER -> c

\* str.lower()
Lower(s) == [n \in 1..Len(s) |-> LowerChar(s[n])]

StartsWith(s, c) == s # <<>> /\ s[1] = c

EndsWith(s, c) == s # <<>> /\ s[Len(s)] = c

-----------------------------------------------------------------------------
(* Cells *)

NaN == [nan |-> TRUE, s |-> <<>>]

Text(s) == [nan |-> FALSE, s |-> s]

Blank == Text(<<>>)

\* str(cell): the text itself, and "nan" for the null marker
PyStr(c) == IF c.nan THEN <<"n", "a", "n">> ELSE c.s

\* texts pandas reads as null (a part of its default na_values)
NaValues == {<<>>, <<"n", "a", "n">>, <<"N", "a", "N">>, <<"N", "A">>}

ReadCell(t) == IF t \in NaValues THEN NaN ELSE Text(t)

-----------------------------------------------------------------------------
(* Uploaded files *)

Absent == [kind |-> "absent", header |-> <<>>, rows |-> <<>>]

Garbage == [kind |-> "bad", header |-> <<>>, rows |-> <<>>]

Sheet(kind, header, rows) == [kind |-> kind, header |-> header, rows |-> rows]

-----------------------------------------------------------------------------
(* DataFrames: ordered column labels, a RangeIndex of nrows rows, and the    *)
(* cells of each column.                                                     *)

DataFrame(columns, nrows, data) ==
    [columns |-> columns, nrows |-> nrows, data |-> data]

\* pd.DataFrame()
EmptyFrame == DataFrame(<<>>, 0, [h \in {} |-> <<>>])

\* the table a parseable sheet is read as
FrameOfSheet(f) ==
    DataFrame(f.header, Len(f.rows),
              [h \in Range(f.header) |->
                  [r \in 1..Len(f.rows) |->
                      ReadCell(f.rows[r][IndexOf(f.header, h)])]])

\* pd.read_excel(f): raises unless f is a workbook
ExcelReadable(f) == f.kind = "xlsx"

\* pd.read_csv(f): raises unless f is delimited text
CsvReadable(f) == f.kind = "csv"

\* df.reindex(columns=cols): columns df lacks are all NaN
Reindex(df, cols) ==
    DataFrame(cols, df.nrows,
              [h \in Range(cols) |->
                  IF h \in Range(df.columns) THEN df.data[h]
                  ELSE [r \in 1..df.nrows |-> NaN]])

\* a concat that stacks the later frames above the earlier ones
RECURSIVE ConcatFramesReversed(_)
ConcatFramesReversed(frames) ==
    IF Len(frames) = 1 THEN frames[1]
    ELSE LET rest == ConcatFramesReversed(Tail(frames))
             first == frames[1]
         IN DataFrame(first.columns, first.nrows + rest.nrows,
                      [h \in Range(first.columns) |->
                          rest.data[h] \o first.data[h]])

\* pd.concat(frames, ignore_index=True) of frames that share their columns
RECURSIVE ConcatFrames(_)
ConcatFrames(frames) ==
    IF Len(frames) = 1 THEN frames[1]
    ELSE LET rest == ConcatFrames(Tail(frames))
             first == frames[1]
         IN DataFrame(first.columns, first.nrows + rest.nrows,
                      [h \in Range(first.columns) |->
                          first.data[h] \o rest.data[h]])

\* a merge that forgets fillna
FillNaSkipped(df) == df

\* df.fillna("")
FillNa(df) ==
    DataFrame(df.columns, df.nrows,
              [h \in Range(df.columns) |->
                  [r \in 1..df.nrows |->
                      IF df.data[h][r].nan THEN Blank ELSE df.data[h][r]]])

-----------------------------------------------------------------------------
(* Responses *)

NoResponse == [kind |-> "none", status |-> 0, name |-> "", body |-> ""]

\* send_file(..., download_name=name) of the workbook written from df
SendFile(df, name) == [kind |-> "file", status |-> 200, name |-> name, body |-> df]

\* a JSON object {"error": msg} with an HTTP status
JsonError(msg, status) == [kind |-> "json", status |-> status, name |-> "", body |-> msg]

\* what Flask answers when a view raises: its own 500 page, not JSON
FlaskInternalError ==
    [kind |-> "html", status |-> 500, name |-> "", body |-> "Internal Server Error"]

-----------------------------------------------------------------------------
(* POST /merge *)

\* the uploads the model draws from: three header lists that overlap, the
\* second one uploaded as delimited text and the others as workbooks, with
\* rows with and without an empty cell
MergeHeaderLists ==
    { <<T("A"), T("B")>>, <<T("C"), T("A")>>, <<T("B"), T("D"), T("C")>> }

KindOf(header) == IF header = <<T("C"), T("A")>> THEN "csv" ELSE "xlsx"

FullRow(header) == [n \in 1..Len(header) |-> header[n] \o <<"1">>]

GapRow(header) ==
    [n \in 1..Len(header) |-> IF n = 1 THEN <<>> ELSE header[n] \o <<"2">>]

MergeSheets ==
    UNION { { Sheet(KindOf(h), h, rows) :
                rows \in SeqsUpTo({FullRow(h), GapRow(h)}, MaxRows) } :
            h \in MergeHeaderLists }

MergeUploads == MergeSheets \cup {Garbage}

\* the loop of lines 41-43 over one file's columns
RECURSIVE TrackExtras(_, _, _)
TrackExtras(cols, base, seen) ==
    IF cols = <<>> THEN seen
    ELSE TrackExtras(Tail(cols), base,
                     IF ~Contains(base, Head(cols)) /\ ~Contains(seen, Head(cols))
                     THEN Append(seen, Head(cols))
                     ELSE seen)

\* final columns with the extras ahead of the base headers
FinalColsExtrasFirst(base, seen) ==
    SelectSeq(seen, LAMBDA c : ~Contains(base, c)) \o base

\* final_cols: the base headers, then the extras that are not base headers
FinalCols(base, seen) ==
    base \o SelectSeq(seen, LAMBDA c : ~Contains(base, c))

\* aligned: every DataFrame reindexed to the final columns
Aligned(frames, cols) == [n \in 1..Len(frames) |-> Reindex(frames[n], cols)]

\* merged_df
MergedFrame(frames, cols) == FillNa(ConcatFrames(Aligned(frames, cols)))

IdleLocals ==
    /\ i = 1
    /\ dfs = <<>>
    /\ seen_extra_cols = <<>>
    /\ base_order = <<>>
    /\ input_df = EmptyFrame
    /\ base_headers = <<>>
    /\ hm_df = EmptyFrame
    /\ transformed_df = EmptyFrame
    /\ response = NoResponse
    /\ pc = "start"

InitMerge ==
    /\ endpoint = "merge"
    /\ files \in SeqsUpTo(MergeUploads, MaxFiles)
    /\ input_file = Absent
    /\ base_file = Absent
    /\ hm_file = Absent
    /\ IdleLocals

\* lines 14-16
MergeNoFiles ==
    /\ endpoint = "merge" /\ pc = "start"
    /\ files = <<>>
    /\ response' = JsonError("No files uploaded", 400)
    /\ pc' = "done"
    /\ UNCHANGED <<endpoint, files, input_file, base_file, hm_file, i, dfs,
                   seen_extra_cols, base_order, input_df, base_headers, hm_df,
                   transformed_df>>

\* lines 18-20
MergeBegin ==
    /\ endpoint = "merge" /\ pc = "start"
    /\ files # <<>>
    /\ dfs' = <<>>
    /\ seen_extra_cols' = <<>>
    /\ base_order' = <<>>
    /\ i' = 1
    /\ pc' = "loop"
    /\ UNCHANGED <<endpoint, files, input_file, base_file, hm_file, input_df,
                   base_headers, hm_df, transformed_df, response>>

\* lines 22-43, one iteration; a file that is neither a workbook nor
\* delimited text makes read_csv raise, and nothing in merge_files catches it
MergeIngest ==
    /\ endpoint = "merge" /\ pc = "loop"
    /\ i <= Len(files)
    /\ LET f == files[i] IN
       IF ExcelReadable(f) \/ CsvReadable(f)
       THEN LET df == FrameOfSheet(f)
                base == IF i = 1 THEN df.columns ELSE base_order
            IN /\ dfs' = Append(dfs, df)
               /\ base_order' = base
               /\ seen_extra_cols' = TrackExtras(df.columns, base, seen_extra_cols)
               /\ i' = i + 1
               /\ UNCHANGED <<pc, response>>
       ELSE /\ response' = FlaskInternalError
            /\ pc' = "done"
            /\ UNCHANGED <<dfs, base_order, seen_extra_cols, i>>
    /\ UNCHANGED <<endpoint, files, input_file, base_file, hm_file, input_df,
                   base_headers, hm_df, transformed_df>>

\* lines 45-61
MergeFinish ==
    /\ endpoint = "merge" /\ pc = "loop"
    /\ i > Len(files)
    /\ response' = SendFile(MergedFrame(dfs, FinalCols(base_order, seen_extra_cols)),
                            "merged.xlsx")
    /\ pc' = "done"
    /\ UNCHANGED <<endpoint, files, input_file, base_file, hm_file, i, dfs,
                   seen_extra_cols, base_order, input_df, base_headers, hm_df,
                   transformed_df>>

NextMerge == MergeNoFiles \/ MergeBegin \/ MergeIngest \/ MergeFinish

SpecMerge == InitMerge /\ [][NextMerge]_vars

-----------------------------------------------------------------------------
(* Claims about POST /merge *)

MergeDone == endpoint = "merge" /\ pc = "done" /\ response.kind = "file"

\* where header h is first met when the uploads are scanned in upload order
\* and each header list left to right: <<file, position>>
FirstSeenFile(h) == CHOOSE k \in 1..Len(files) :
    /\ Contains(files[k].header, h)
    /\ \A j \in 1..(k - 1) : ~Contains(files[j].header, h)

SeenBefore(g, h) ==
    \/ FirstSeenFile(g) < FirstSeenFile(h)
    \/ /\ FirstSeenFile(g) = FirstSeenFile(h)
       /\ IndexOf(files[FirstSeenFile(g)].header, g)
            < IndexOf(files[FirstSeenFile(h)].header, h)

\* rows of the uploads before upload k
RowsBefore(k) == SumLen([j \in 1..(k - 1) |-> files[j].rows])

\* the text of upload k, row r, under header h
SourceText(k, r, h) == files[k].rows[r][IndexOf(files[k].header, h)]

C7_MergeBlankFill ==
    MergeDone =>
        LET out == response.body IN
        /\ \A h \in Range(out.columns) : \A r \in 1..Len(out.data[h]) :
              ~out.data[h][r].nan
        /\ \A k \in 1..Len(files) : \A r \in 1..Len(files[k].rows) :
              \A h \in Range(out.columns) :
                 out.data[h][RowsBefore(k) + r] =
                    IF /\ Contains(files[k].header, h)
                       /\ SourceText(k, r, h) \notin NaValues
                    THEN Text(SourceText(k, r, h))
                    ELSE Blank

\* a merged table with a row whose source lacked a column, an empty source
\* cell and a filled source cell
C7_Witness ==
    /\ MergeDone
    /\ \E k \in 1..Len(files) :
          /\ files[k].rows # <<>>
          /\ \E h \in Range(response.body.columns) : ~Contains(files[k].header, h)
    /\ \E k \in 1..Len(files) : \E r \in 1..Len(files[k].rows) :
          \E h \in Range(files[k].header) : SourceText(k, r, h) = <<>>
    /\ \E k \in 1..Len(files) : \E r \in 1..Len(files[k].rows) :
          \E h \in Range(files[k].header) : SourceText(k, r, h) # <<>>

\* C8: the merged table has the sum of the inputs' rows, stacked in upload
\* order and, within a file, in the file's row order.
C8_MergeRowOrder ==
    MergeDone =>
        LET out == response.body IN
        /\ out.nrows = SumLen([k \in 1..Len(files) |-> files[k].rows])
        /\ \A h \in Range(out.columns) : Len(out.data[h]) = out.nrows
        /\ \A k \in 1..Len(files) : \A r \in 1..Len(files[k].rows) :
              \A h \in Range(files[k].header) :
                 PyStr(out.data[h][RowsBefore(k) + r]) = SourceText(k, r, h)

\* two files with rows, the first with two different rows
C8_Witness ==
    /\ MergeDone
    /\ Len(files) >= 2
    /\ Len(files[1].rows) >= 2
    /\ files[1].rows[1] # files[1].rows[2]
    /\ files[2].rows # <<>>

\* C2: every finished request ends in the result spreadsheet or in a JSON
\* error with status 400 or 500; /merge without files ends in
\* {"error": "No files uploaded"}, 400, and a /merge upload that parses
\* neither way ends in a JSON error.
C2_ErrorResponseContract ==
    pc = "done" =>
        /\ \/ response.kind = "file"
           \/ response.kind = "json" /\ response.status \in {400, 500}
        /\ (endpoint = "merge" /\ files = <<>>)
              => response = JsonError("No files uploaded", 400)
        /\ (endpoint = "merge" /\ Contains(files, Garbage))
              => response.kind = "json"

-----------------------------------------------------------------------------
(* POST /generate-hm *)

BaseHeaderCol == T("Base Header")

MatchedCol == T("Matched Input Header")

UnmatchedCol == T("Unmatched Input Headers")

HmColumns == <<BaseHeaderCol, MatchedCol, UnmatchedCol>>

GenHeaderNames == {T("X"), T("Y"), T("Z"), T("W"), T("V")}

GenUploads ==
    {Sheet("xlsx", h, <<>>) : h \in UniqueSeqsUpTo(GenHeaderNames, MaxHeaders)}
        \cup {Absent, Garbage}

\* line 91
Matched(base, input) ==
    [n \in 1..Len(base) |-> IF Contains(input, base[n]) THEN base[n] ELSE <<>>]

\* an unmatched list taken from the wrong side
UnmatchedOfBase(base, input) == SelectSeq(base, LAMBDA c : ~Contains(input, c))

\* line 94
UnmatchedHeaders(base, input) == SelectSeq(input, LAMBDA c : ~Contains(base, c))

Max(a, b) == IF a >= b THEN a ELSE b

\* lst + [""] * (n - len(lst)); a negative count repeats nothing
Extended(lst, n) == lst \o [m \in 1..(n - Len(lst)) |-> <<>>]

\* lines 97-106: the DataFrame of the three padded lists
HmFrame(base, input) ==
    LET matched == Matched(base, input)
        unmatched_headers == UnmatchedHeaders(base, input)
        max_len == Max(Len(base), Len(unmatched_headers))
        AsColumn(lst) == [r \in 1..max_len |-> Text(Extended(lst, max_len)[r])]
    IN DataFrame(HmColumns, max_len,
                 [c \in Range(HmColumns) |->
                     IF c = BaseHeaderCol THEN AsColumn(base)
                     ELSE IF c = MatchedCol THEN AsColumn(matched)
                     ELSE AsColumn(unmatched_headers)])

InitGen ==
    /\ endpoint = "generate-hm"
    /\ files = <<>>
    /\ input_file \in GenUploads
    /\ base_file \in GenUploads
    /\ hm_file = Absent
    /\ IdleLocals

\* lines 77-81
GenMissing ==
    /\ endpoint = "generate-hm" /\ pc = "start"
    /\ input_file = Absent \/ base_file = Absent
    /\ response' = JsonError("Both Input File and Base Structure File are required", 400)
    /\ pc' = "done"
    /\ UNCHANGED <<endpoint, files, input_file, base_file, hm_file, i, dfs,
                   seen_extra_cols, base_order, input_df, base_headers, hm_df,
                   transformed_df>>

\* lines 84-113: read_excel raising is caught and answered as JSON
GenerateHm ==
    /\ endpoint = "generate-hm" /\ pc = "start"
    /\ input_file # Absent /\ base_file # Absent
    /\ response' =
          IF ExcelReadable(input_file) /\ ExcelReadable(base_file)
          THEN SendFile(HmFrame(FrameOfSheet(base_file).columns,
                                FrameOfSheet(input_file).columns),
                        "Header_Matching_File.xlsx")
          ELSE JsonError("File is not a zip file", 500)
    /\ pc' = "done"
    /\ UNCHANGED <<endpoint, files, input_file, base_file, hm_file, i, dfs,
                   seen_extra_cols, base_order, input_df, base_headers, hm_df,
                   transformed_df>>

NextGen == GenMissing \/ GenerateHm

SpecGen == InitGen /\ [][NextGen]_vars

GenDone == endpoint = "generate-hm" /\ pc = "done" /\ response.kind = "file"

\* C6: with B the base headers, I the input headers and U the headers of I
\* not in B, the generated table has max(len(B), len(U)) rows; Base Header is
\* B padded with empty strings; Matched Input Header holds B[r] where B[r]
\* occurs in I and the empty string elsewhere; Unmatched Input Headers is U
\* padded with empty strings.
C6_GeneratedTable ==
    GenDone =>
        LET B == base_file.header
            I == input_file.header
            U == SelectSeq(I, LAMBDA h : \A n \in 1..Len(B) : B[n] # h)
            out == response.body
        IN /\ out.columns = HmColumns
           /\ out.nrows = Max(Len(B), Len(U))
           /\ \A c \in Range(HmColumns) : Len(out.data[c]) = out.nrows
           /\ \A r \in 1..out.nrows :
                /\ out.data[BaseHeaderCol][r] =
                      IF r <= Len(B) THEN Text(B[r]) ELSE Blank
                /\ out.data[MatchedCol][r] =
                      IF r <= Len(B) /\ (\E n \in 1..Len(I) : I[n] = B[r])
                      THEN Text(B[r]) ELSE Blank
                /\ out.data[UnmatchedCol][r] =
                      IF r <= Len(U) THEN Text(U[r]) ELSE Blank

\* a generated table with a matched header, an unmatched base header and
\* more unmatched input headers than base headers (padding rows)
C6_Witness ==
    /\ GenDone
    /\ response.body.nrows > Len(base_file.header)
    /\ \E h \in Range(base_file.header) : Contains(input_file.header, h)
    /\ \E h \in Range(base_file.header) : ~Contains(input_file.header, h)

-----------------------------------------------------------------------------
(* POST /transform *)

\* the input files the model draws from: no rows, two rows (one with an
\* empty cell), and a file without the column X
InputUploads ==
    { Sheet("xlsx", <<T("X"), T("Y")>>, <<>>),
      Sheet("xlsx", <<T("X"), T("Y")>>, << <<T("p"), T("q")>>, <<T("q"), <<>>>> >>),
      Sheet("xlsx", <<T("Y")>>, << <<T("q")>> >>) }

BaseUploads ==
    { Sheet("xlsx", <<T("B"), T("A"), T("C")>>, <<>>),
      Sheet("xlsx", <<T("A")>>, << <<T("a")>> >>) }

\* texts of a Base Header cell: empty, blank, a base header to trim, a base
\* header, a header that is no base header
BaseTexts == { <<>>, <<" ">>, <<" ", "A", " ">>, T("B"), T("Z") }

\* texts of a Matched Input Header cell: empty, an input header to trim, a
\* quoted literal, a literal quoted twice, "Nan"
MatchedTexts ==
    { <<>>, <<" ", "X", " ">>, <<Quote, "v", Quote>>,
      <<Quote, Quote, "v", Quote, Quote>>, <<"N", "a", "n">> }

HmRows == { <<b, m, T("W")>> : b \in BaseTexts, m \in MatchedTexts }

\* a header-matching file that has no Base Header column
HmWithoutBaseHeader ==
    Sheet("xlsx", <<MatchedCol, UnmatchedCol>>, << <<T("X"), T("W")>> >>)

HmUploads ==
    {Sheet("xlsx", HmColumns, rows) : rows \in SeqsUpTo(HmRows, MaxHmRows)}
        \cup {HmWithoutBaseHeader}

\* row.get(col, default) on row r of df
RowGet(df, r, col, default) ==
    IF Contains(df.columns, col) THEN df.data[col][r] ELSE default

\* line 140
BaseColOf(df, r) == Strip(PyStr(RowGet(df, r, BaseHeaderCol, Blank)))

\* line 141
MatchedColOf(df, r) == Strip(PyStr(RowGet(df, r, MatchedCol, Blank)))

\* an assignment that keeps a column that already exists
SetItemKeepFirst(df, name, vals) ==
    IF Contains(df.columns, name) THEN df
    ELSE DataFrame(Append(df.columns, name),
                   IF df.nrows = 0 THEN Len(vals) ELSE df.nrows,
                   [h \in Range(df.columns) \cup {name} |->
                       IF h = name THEN vals ELSE df.data[h]])

\* df[name] = vals for a list or a Series over the same RangeIndex: a frame
\* without rows takes the index of vals (its columns become NaN), the column
\* is appended or replaced in place
SetItem(df, name, vals) ==
    LET n == IF df.nrows = 0 THEN Len(vals) ELSE df.nrows IN
    DataFrame(IF Contains(df.columns, name) THEN df.columns
              ELSE Append(df.columns, name),
              n,
              [h \in Range(df.columns) \cup {name} |->
                  IF h = name THEN vals
                  ELSE IF df.nrows = 0 THEN [r \in 1..n |-> NaN]
                  ELSE df.data[h]])

\* df[name] = v for a scalar: one v per row of the index df has
SetItemScalar(df, name, v) ==
    DataFrame(IF Contains(df.columns, name) THEN df.columns
              ELSE Append(df.columns, name),
              df.nrows,
              [h \in Range(df.columns) \cup {name} |->
                  IF h = name THEN [r \in 1..df.nrows |-> v] ELSE df.data[h]])

\* a literal that keeps its quotes
ColumnForKeepQuotes(input, matched_col) ==
    IF Contains(input.columns, matched_col)
    THEN input.data[matched_col]
    ELSE IF StartsWith(matched_col, Quote) /\ EndsWith(matched_col, Quote)
    THEN [r \in 1..input.nrows |-> Text(matched_col)]
    ELSE [r \in 1..input.nrows |-> Blank]

\* lines 146-157: the value assigned for a Matched Input Header
ColumnFor(input, matched_col) ==
    IF Contains(input.columns, matched_col)
    THEN input.data[matched_col]
    ELSE IF StartsWith(matched_col, Quote) /\ EndsWith(matched_col, Quote)
    THEN [r \in 1..input.nrows |-> Text(StripChars(matched_col, {Quote}))]
    ELSE IF matched_col = <<>> \/ Lower(matched_col) = <<"n", "a", "n">>
    THEN [r \in 1..input.nrows |-> Blank]
    ELSE [r \in 1..input.nrows |-> Blank]

\* lines 160-162
RECURSIVE EnsureHeaders(_, _)
EnsureHeaders(df, cols) ==
    IF cols = <<>> THEN df
    ELSE EnsureHeaders(IF Contains(df.columns, Head(cols)) THEN df
                       ELSE SetItemScalar(df, Head(cols), Blank),
                       Tail(cols))

\* a selection that keeps every column
SelectNothing(df, cols) == df

\* line 164: df[cols]
SelectColumns(df, cols) ==
    DataFrame(cols, df.nrows, [h \in Range(cols) |-> df.data[h]])

InitTransform ==
    /\ endpoint = "transform"
    /\ files = <<>>
    /\ \/ /\ input_file \in InputUploads
          /\ base_file \in BaseUploads
          /\ hm_file \in HmUploads
       \/ /\ input_file \in InputUploads \cup {Absent, Garbage}
          /\ base_file \in BaseUploads \cup {Absent, Garbage}
          /\ hm_file \in {HmWithoutBaseHeader, Absent, Garbage}
    /\ IdleLocals

\* lines 125-130
TransformMissing ==
    /\ endpoint = "transform" /\ pc = "start"
    /\ input_file = Absent \/ base_file = Absent \/ hm_file = Absent
    /\ response' = JsonError("Input, Base, and HM files are all required", 400)
    /\ pc' = "done"
    /\ UNCHANGED <<endpoint, files, input_file, base_file, hm_file, i, dfs,
                   seen_extra_cols, base_order, input_df, base_headers, hm_df,
                   transformed_df>>

\* lines 132-137; read_excel raising is caught at lines 170-171
TransformRead ==
    /\ endpoint = "transform" /\ pc = "start"
    /\ input_file # Absent /\ base_file # Absent /\ hm_file # Absent
    /\ IF ExcelReadable(input_file) /\ ExcelReadable(base_file)
          /\ ExcelReadable(hm_file)
       THEN /\ input_df' = FrameOfSheet(input_file)
            /\ base_headers' = FrameOfSheet(base_file).columns
            /\ hm_df' = FrameOfSheet(hm_file)
            /\ transformed_df' = EmptyFrame
            /\ i' = 1
            /\ pc' = "loop"
            /\ UNCHANGED response
       ELSE /\ response' = JsonError("File is not a zip file", 500)
            /\ pc' = "done"
            /\ UNCHANGED <<input_df, base_headers, hm_df, transformed_df, i>>
    /\ UNCHANGED <<endpoint, files, input_file, base_file, hm_file, dfs,
                   seen_extra_cols, base_order>>

\* lines 139-157, one hm row
TransformRow ==
    /\ endpoint = "transform" /\ pc = "loop"
    /\ i <= hm_df.nrows
    /\ LET base_col == BaseColOf(hm_df, i)
           matched_col == MatchedColOf(hm_df, i)
       IN transformed_df' =
             IF base_col = <<>> THEN transformed_df
             ELSE SetItem(transformed_df, base_col, ColumnFor(input_df, matched_col))
    /\ i' = i + 1
    /\ UNCHANGED <<endpoint, files, input_file, base_file, hm_file, pc, dfs,
                   seen_extra_cols, base_order, input_df, base_headers, hm_df,
                   response>>

\* lines 159-169
TransformFinish ==
    /\ endpoint = "transform" /\ pc = "loop"
    /\ i > hm_df.nrows
    /\ LET ensured == EnsureHeaders(transformed_df, base_headers) IN
       /\ transformed_df' = SelectColumns(ensured, base_headers)
       /\ response' = SendFile(SelectColumns(ensured, base_headers),
                               "Transformed_File.xlsx")
    /\ pc' = "done"
    /\ UNCHANGED <<endpoint, files, input_file, base_file, hm_file, i, dfs,
                   seen_extra_cols, base_order, input_df, base_headers, hm_df>>

NextTransform ==
    TransformMissing \/ TransformRead \/ TransformRow \/ TransformFinish

SpecTransform == InitTransform /\ [][NextTransform]_vars

-----------------------------------------------------------------------------
(* The three routes together *)

Init == InitMerge \/ InitGen \/ InitTransform

Next == NextMerge \/ NextGen \/ NextTransform

Spec == Init /\ [][Next]_vars

-----------------------------------------------------------------------------
(* Claims about POST /transform *)

TransformDone == endpoint = "transform" /\ pc = "done" /\ response.kind = "file"

InputRows == Len(input_file.rows)

\* the uploaded input file's column h, row for row
InputColumn(h) ==
    [r \in 1..InputRows |->
        ReadCell(input_file.rows[r][IndexOf(input_file.header, h)])]

Repeated(t) == [r \in 1..InputRows |-> Text(t)]

\* m begins and ends with a double quote
Wrapped(m) == Len(m) >= 2 /\ m[1] = Quote /\ m[Len(m)] = Quote

\* m without its first and its last character
Unwrapped(m) == SubSeq(m, 2, Len(m) - 1)

\* m without any of its leading and trailing double quotes
QuotesStripped(m) ==
    LET ab == CHOOSE ab \in (1..(Len(m) + 1)) \X (0..Len(m)) :
                 /\ ab[1] <= ab[2] + 1
                 /\ \A n \in 1..(ab[1] - 1) : m[n] = Quote
                 /\ \A n \in (ab[2] + 1)..Len(m) : m[n] = Quote
                 /\ ab[1] <= ab[2] => m[ab[1]] # Quote /\ m[ab[2]] # Quote
    IN SubSeq(m, ab[1], ab[2])

\* the column a Matched Input Header m stands for
DirectiveColumn(m) ==
    IF Contains(input_file.header, m) THEN InputColumn(m)
    ELSE IF Wrapped(m) THEN Repeated(QuotesStripped(m))
    ELSE Repeated(<<>>)

\* hm row r is the last row whose trimmed Base Header is the base header h
LastNaming(r, h) ==
    /\ h # <<>>
    /\ Contains(base_file.header, h)
    /\ BaseColOf(hm_df, r) = h
    /\ \A q \in (r + 1)..hm_df.nrows : BaseColOf(hm_df, q) # h

\* C3: the output has as many rows as the input table, whatever the
\* header-matching table holds.
C3_TransformRowCount ==
    TransformDone =>
        /\ response.body.nrows = InputRows
        /\ \A h \in Range(response.body.columns) :
              Len(response.body.data[h]) = InputRows

\* C4 as stated: the output column h of the last hm row naming h is a copy of
\* input column m, else the text between the wrapping quotes of m repeated,
\* else the empty string repeated.
C4_DirectiveResolution ==
    TransformDone =>
        \A r \in 1..hm_df.nrows :
            LET h == BaseColOf(hm_df, r)
                m == MatchedColOf(hm_df, r)
            IN LastNaming(r, h) =>
                 response.body.data[h] =
                    IF Contains(input_file.header, m) THEN InputColumn(m)
                    ELSE IF Wrapped(m) THEN Repeated(Unwrapped(m))
                    ELSE Repeated(<<>>)

\* C4 amended: as C4, the literal being m without any of its leading and
\* trailing double quotes.
C4_DirectiveResolutionAmended ==
    TransformDone =>
        \A r \in 1..hm_df.nrows :
            LET h == BaseColOf(hm_df, r)
                m == MatchedColOf(hm_df, r)
            IN LastNaming(r, h) => response.body.data[h] = DirectiveColumn(m)

\* an output over two input rows with a copied column and a column from a
\* literal quoted twice
C4_Witness ==
    /\ TransformDone
    /\ InputRows = 2
    /\ \E r \in 1..hm_df.nrows :
          /\ LastNaming(r, BaseColOf(hm_df, r))
          /\ Contains(input_file.header, MatchedColOf(hm_df, r))
    /\ \E r \in 1..hm_df.nrows :
          /\ LastNaming(r, BaseColOf(hm_df, r))
          /\ MatchedColOf(hm_df, r) = <<Quote, Quote, "v", Quote, Quote>>

\* C5: the output's header list is the base file's header list in its order;
\* a base header no hm row names is an all-blank column; an hm row naming a
\* header outside the base headers adds no column.
C5_TransformCompleteness ==
    TransformDone =>
        /\ response.body.columns = base_file.header
        /\ \A h \in Range(base_file.header) :
              (\A r \in 1..hm_df.nrows : BaseColOf(hm_df, r) # h)
                 => \A r \in 1..Len(response.body.data[h]) :
                       response.body.data[h][r] = Blank

\* an output with rows where an hm row names a header outside the base
\* headers, another names a base header, and a base header is named by none
C5_Witness ==
    /\ TransformDone
    /\ response.body.nrows > 0
    /\ Len(base_file.header) > 1
    /\ \E r \in 1..hm_df.nrows : BaseColOf(hm_df, r) = T("Z")
    /\ \E r \in 1..hm_df.nrows : BaseColOf(hm_df, r) = T("B")

\* the Base Header cell of hm row r is empty once trimmed
EmptyBaseHeader(r) ==
    LET c == RowGet(hm_df, r, BaseHeaderCol, Blank) IN c.nan \/ Strip(c.s) = <<>>

\* C9: processing an hm row whose Base Header cell is empty after trimming
\* leaves the table under construction as it was.
C9_SkipEmptyBaseHeader ==
    [][(endpoint = "transform" /\ pc = "loop" /\ i <= hm_df.nrows
          /\ EmptyBaseHeader(i))
        => transformed_df' = transformed_df]_vars

\* C10: processing an hm row naming h sets column h to that row's directive,
\* whatever column h held, and leaves every other column as it was; so the
\* output column of a base header is the directive of the last row naming it.
C10_LastWriteWins ==
    /\ [][(endpoint = "transform" /\ pc = "loop" /\ i <= hm_df.nrows
             /\ BaseColOf(hm_df, i) # <<>>)
           => /\ transformed_df'.data[BaseColOf(hm_df, i)]
                    = DirectiveColumn(MatchedColOf(hm_df, i))
              /\ \A g \in Range(transformed_df.columns) \ {BaseColOf(hm_df, i)} :
                    /\ Contains(transformed_df'.columns, g)
                    /\ transformed_df'.data[g] = transformed_df.data[g]]_vars
    /\ [](TransformDone =>
            \A r, q \in 1..hm_df.nrows :
                (r < q /\ LastNaming(q, BaseColOf(hm_df, r)))
                    => response.body.data[BaseColOf(hm_df, q)]
                          = DirectiveColumn(MatchedColOf(hm_df, q)))

\* an output where a copied column was overwritten by a later blank directive
C10_Witness ==
    /\ TransformDone
    /\ InputRows = 2
    /\ \E r, q \in 1..hm_df.nrows :
          /\ r < q
          /\ LastNaming(q, BaseColOf(hm_df, r))
          /\ Contains(input_file.header, MatchedColOf(hm_df, r))
          /\ MatchedColOf(hm_df, q) = <<"n", "a", "n">>

====
